---- MODULE Spec2Model ----
(***************************************************************************)
(* A model of package sliceheap (src/sliceheap.go): the binary heap kept   *)
(* in a Go slice, its two primitives up and down, and the five public      *)
(* operations Init, Push, Pop, Remove and Fix in their ...Func form.       *)
(*                                                                         *)
(* Go slices are indexed from 0 and TLA+ sequences from 1: position k of   *)
(* the slice is element k+1 of the sequence.  An index expression outside  *)
(* [0, len) panics in Go; every operator below returns a record whose      *)
(* field panic tells whether the call panicked and whose field h is the    *)
(* slice as the call left it.                                              *)
(***************************************************************************)
EXTENDS Integers, Sequences, FiniteSets, Bags, TLC

\* Under cmp.Less: the longest slice the model builds, and its elements
\* are the integers 0..MaxVal.
MaxLen == 6
MaxVal == 1
\* Under the caller's own ordering: the same two bounds.
MaxKeyedLen == 4
MaxKeyedVal == 2
\* Longest list of which every order is tried.
MaxList == 4
\* Width in bits of the model's int (Go's int is 32 or 64 bits wide).
IntWidth == 5

VARIABLES
    h,         \* the caller's slice
    lessFn,    \* the ordering the caller passes: "cmp.Less" or "byKey"
    op,        \* the last operation called ("none" before the first one)
    old,       \* the slice as it was before the last operation
    args,      \* the arguments of the last operation
    ret,       \* <<x>> when the last operation returned x, <<>> otherwise
    panicked,  \* the last operation ended in a panic
    draining,  \* only Pops were called since the last Init
    src,       \* while draining: the slice that Init was given
    out,       \* while draining: the values popped since, in order
    building,  \* only Pushes, at most MaxList, were called since an Init of the empty slice
    log        \* while building: the values pushed, in order

vars == <<h, lessFn, op, old, args, ret, panicked, draining, src, out, building, log>>

\* The elements and the longest slice of a run, by the ordering it uses.
Values == IF lessFn = "cmp.Less" THEN 0..MaxVal ELSE 0..MaxKeyedVal
LenBound == IF lessFn = "cmp.Less" THEN MaxLen ELSE MaxKeyedLen

\* Every slice of at most n elements.
SeqsUpTo(n) == UNION {[1..k -> Values] : k \in 0..n}

(***************************************************************************)
(* Integers and the ordering                                               *)
(***************************************************************************)
MinInt == -(2 ^ (IntWidth - 1))
MaxInt == (2 ^ (IntWidth - 1)) - 1

\* Go's int arithmetic wraps around silently.
WrapInt(x) == ((x - MinInt) % (2 ^ IntWidth)) + MinInt

\* Go's integer division truncates toward zero.
TruncDiv(a, b) == IF a >= 0 THEN a \div b ELSE -((-a) \div b)

\* The priority of an element under the caller-supplied ordering "byKey":
\* two elements of the same priority are different values that compare equal.
Key(x) == x \div 2

\* The less function: cmp.Less for the cmp.Ordered variants, a caller's
\* function (here: compare by priority) for the ...Func variants.
less(x, y) == IF lessFn = "cmp.Less" THEN x < y ELSE Key(x) < Key(y)

InRange(s, k) == 0 <= k /\ k < Len(s)
At(s, k) == s[k + 1]
Swap(s, i, j) == [s EXCEPT ![i + 1] = s[j + 1], ![j + 1] = s[i + 1]]

(***************************************************************************)
(* up                                                                      *)
(***************************************************************************)
up_oneSwap(s, j) ==
    LET i == TruncDiv(WrapInt(j - 1), 2) IN
    IF i = j THEN [h |-> s, panic |-> FALSE, swaps |-> 0]
    ELSE IF ~InRange(s, j) \/ ~InRange(s, i)
    THEN [h |-> s, panic |-> TRUE, swaps |-> 0]
    ELSE IF ~less(At(s, j), At(s, i)) THEN [h |-> s, panic |-> FALSE, swaps |-> 0]
    ELSE [h |-> Swap(s, i, j), panic |-> FALSE, swaps |-> 1]

RECURSIVE up_wrongParent(_, _)
up_wrongParent(s, j) ==
    LET i == TruncDiv(j, 2) IN
    IF i = j THEN [h |-> s, panic |-> FALSE, swaps |-> 0]
    ELSE IF ~InRange(s, j) \/ ~InRange(s, i)
    THEN [h |-> s, panic |-> TRUE, swaps |-> 0]
    ELSE IF ~less(At(s, j), At(s, i)) THEN [h |-> s, panic |-> FALSE, swaps |-> 0]
    ELSE [up_wrongParent(Swap(s, i, j), i) EXCEPT !.swaps = @ + 1]

RECURSIVE up_swapsEqual(_, _)
up_swapsEqual(s, j) ==
    LET i == TruncDiv(WrapInt(j - 1), 2) IN
    IF i = j THEN [h |-> s, panic |-> FALSE, swaps |-> 0]
    ELSE IF ~InRange(s, j) \/ ~InRange(s, i)
    THEN [h |-> s, panic |-> TRUE, swaps |-> 0]
    ELSE IF less(At(s, i), At(s, j)) THEN [h |-> s, panic |-> FALSE, swaps |-> 0]
    ELSE [up_swapsEqual(Swap(s, i, j), i) EXCEPT !.swaps = @ + 1]

\* The result tells, beside the slice, how many swaps the loop made.
RECURSIVE up(_, _)
up(s, j) ==
    LET i == TruncDiv(WrapInt(j - 1), 2) IN
    IF i = j THEN [h |-> s, panic |-> FALSE, swaps |-> 0]
    ELSE IF ~InRange(s, j) \/ ~InRange(s, i)
    THEN [h |-> s, panic |-> TRUE, swaps |-> 0]
    ELSE IF ~less(At(s, j), At(s, i)) THEN [h |-> s, panic |-> FALSE, swaps |-> 0]
    ELSE [up(Swap(s, i, j), i) EXCEPT !.swaps = @ + 1]

(***************************************************************************)
(* down                                                                    *)
(***************************************************************************)
\* The child that down compares with its parent: the right one when it
\* exists and is less than the left one.
child_leftOnly(s, j1, n) == j1

child(s, j1, n) ==
    LET j2 == WrapInt(j1 + 1) IN
    IF j2 < n /\ less(At(s, j2), At(s, j1)) THEN j2 ELSE j1

\* The index expressions down evaluates in one round panic when out of range.
downPanics(s, i, j1, n) ==
    LET j2 == WrapInt(j1 + 1) IN
    \/ j2 < n /\ (~InRange(s, j2) \/ ~InRange(s, j1))
    \/ ~InRange(s, j1)
    \/ ~InRange(s, i)

\* down stops when the chosen child j is not less than its parent i.
stops_unlessParentLess(s, i, j) == less(At(s, i), At(s, j))

stops(s, i, j) == ~less(At(s, j), At(s, i))

\* j1 := 2*i + 1, in Go's int.
leftChild(i) == WrapInt(WrapInt(2 * i) + 1)

\* down finds no left child at j1.
noChild_unguarded(j1, n) == j1 >= n

noChild(j1, n) == j1 >= n \/ j1 < 0 \* j1 < 0 after int overflow

\* The index expressions down evaluates in one round at position i.
roundReads(i, j1, n) ==
    {i, j1} \cup (IF WrapInt(j1 + 1) < n THEN {WrapInt(j1 + 1)} ELSE {})

\* The result tells, beside the slice and the position reached, how many
\* swaps the loop made and which positions it indexed.
RECURSIVE downLoop(_, _, _)
downLoop(s, i, n) ==
    LET j1 == leftChild(i) IN
    IF noChild(j1, n)
    THEN [h |-> s, i |-> i, panic |-> FALSE, swaps |-> 0, reads |-> {}]
    ELSE IF downPanics(s, i, j1, n)
    THEN [h |-> s, i |-> i, panic |-> TRUE, swaps |-> 0,
          reads |-> roundReads(i, j1, n)]
    ELSE LET j == child(s, j1, n) IN
         IF stops(s, i, j)
         THEN [h |-> s, i |-> i, panic |-> FALSE, swaps |-> 0,
               reads |-> roundReads(i, j1, n)]
         ELSE [downLoop(Swap(s, i, j), j, n) EXCEPT
                  !.swaps = @ + 1,
                  !.reads = @ \cup roundReads(i, j1, n)]

down_movedOrEqual(s, i0, n) ==
    LET r == downLoop(s, i0, n) IN
    [h |-> r.h, moved |-> r.i >= i0, panic |-> r.panic,
     swaps |-> r.swaps, reads |-> r.reads]

down(s, i0, n) ==
    LET r == downLoop(s, i0, n) IN
    [h |-> r.h, moved |-> r.i > i0, panic |-> r.panic,
     swaps |-> r.swaps, reads |-> r.reads]

(***************************************************************************)
(* The public operations                                                   *)
(***************************************************************************)
RECURSIVE heapify(_, _, _)
heapify(s, i, n) ==
    IF i >= 0
    THEN LET r == down(s, i, n) IN
         IF r.panic THEN [h |-> r.h, panic |-> TRUE]
         ELSE heapify(r.h, i - 1, n)
    ELSE [h |-> s, panic |-> FALSE]

\* The index the loop of InitFunc starts at: the last one with a child.
heapifyStart_low(n) == TruncDiv(n, 2) - 2

heapifyStart(n) == TruncDiv(n, 2) - 1

InitFunc_skipsLastParent(s) ==
    LET n == Len(s) IN
    heapify(s, TruncDiv(n, 2) - 2, n) @@ [ret |-> <<>>]

InitFunc(s) ==
    LET n == Len(s) IN
    heapify(s, heapifyStart(n), n) @@ [ret |-> <<>>]

PushFunc_noUp(s, x) ==
    [h |-> Append(s, x), ret |-> <<>>, panic |-> FALSE]

PushFunc(s, x) ==
    LET a == Append(s, x)
        r == up(a, Len(a) - 1)
    IN  [h |-> r.h, ret |-> <<>>, panic |-> r.panic]

PopFunc_noDown(s) ==
    LET n == Len(s) - 1 IN
    IF ~InRange(s, 0) THEN [h |-> s, ret |-> <<>>, panic |-> TRUE]
    ELSE [h |-> SubSeq([s EXCEPT ![1] = At(s, n)], 1, n),
          ret |-> <<At(s, 0)>>, panic |-> FALSE]

PopFunc_unchecked(s) ==
    LET n == Len(s) - 1 IN
    IF ~InRange(s, 0) THEN [h |-> s, ret |-> <<0>>, panic |-> FALSE]
    ELSE LET d == down(SubSeq([s EXCEPT ![1] = At(s, n)], 1, n), 0, n) IN
         [h |-> d.h, ret |-> <<At(s, 0)>>, panic |-> d.panic]

PopFunc_returnsLast(s) ==
    LET n == Len(s) - 1 IN
    IF ~InRange(s, 0) THEN [h |-> s, ret |-> <<>>, panic |-> TRUE]
    ELSE LET d == down(SubSeq([s EXCEPT ![1] = At(s, n)], 1, n), 0, n) IN
         [h |-> d.h, ret |-> <<At(s, n)>>, panic |-> d.panic]

PopFunc(s) ==
    LET n == Len(s) - 1 IN
    \* x := (*h)[0]
    IF ~InRange(s, 0) THEN [h |-> s, ret |-> <<>>, panic |-> TRUE]
    \* (*h)[0] = (*h)[n]
    ELSE IF ~InRange(s, n) THEN [h |-> s, ret |-> <<>>, panic |-> TRUE]
    ELSE LET s1 == [s EXCEPT ![1] = At(s, n)]
             s2 == SubSeq(s1, 1, n)
             d  == down(s2, 0, n)
         IN  [h |-> d.h,
              ret |-> IF d.panic THEN <<>> ELSE <<At(s, 0)>>,
              panic |-> d.panic]

RemoveFunc_noUp(s, i) ==
    LET n == Len(s) - 1 IN
    IF ~InRange(s, i) THEN [h |-> s, ret |-> <<>>, panic |-> TRUE]
    ELSE IF n # i
    THEN LET d == down([s EXCEPT ![i + 1] = At(s, n)], i, n) IN
         [h |-> SubSeq(d.h, 1, n), ret |-> <<At(s, i)>>, panic |-> FALSE]
    ELSE [h |-> SubSeq(s, 1, n), ret |-> <<At(s, i)>>, panic |-> FALSE]

RemoveFunc_alwaysSifts(s, i) ==
    LET n == Len(s) - 1 IN
    IF ~InRange(s, i) THEN [h |-> s, ret |-> <<>>, panic |-> TRUE]
    ELSE LET d == down([s EXCEPT ![i + 1] = At(s, n)], i, n)
             u == IF d.moved THEN d ELSE up(d.h, i)
         IN  [h |-> SubSeq(u.h, 1, n), ret |-> <<At(s, i)>>, panic |-> FALSE]

RemoveFunc_clampsIndex(s, i) ==
    LET n == Len(s) - 1 IN
    IF n < 0 THEN [h |-> s, ret |-> <<>>, panic |-> TRUE]
    ELSE IF ~InRange(s, i)
    THEN [h |-> SubSeq(s, 1, n), ret |-> <<At(s, n)>>, panic |-> FALSE]
    ELSE RemoveFunc_noUp(s, i)

RemoveFunc(s, i) ==
    LET n == Len(s) - 1 IN
    \* x := (*h)[i]
    IF ~InRange(s, i) THEN [h |-> s, ret |-> <<>>, panic |-> TRUE]
    ELSE IF n # i
    THEN \* (*h)[i] = (*h)[n]
         IF ~InRange(s, n) THEN [h |-> s, ret |-> <<>>, panic |-> TRUE]
         ELSE LET s1 == [s EXCEPT ![i + 1] = At(s, n)]
                  d  == down(s1, i, n)
                  u  == IF d.panic \/ d.moved
                        THEN [h |-> d.h, panic |-> d.panic]
                        ELSE up(d.h, i)
              IN  IF u.panic THEN [h |-> u.h, ret |-> <<>>, panic |-> TRUE]
                  ELSE [h |-> SubSeq(u.h, 1, n), ret |-> <<At(s, i)>>,
                        panic |-> FALSE]
    ELSE [h |-> SubSeq(s, 1, n), ret |-> <<At(s, i)>>, panic |-> FALSE]

FixFunc_downOnly(s, i) ==
    LET d == down(s, i, Len(s)) IN
    [h |-> d.h, ret |-> <<>>, panic |-> d.panic]

FixFunc(s, i) ==
    LET d == down(s, i, Len(s))
        u == IF d.panic \/ d.moved
             THEN [h |-> d.h, panic |-> d.panic]
             ELSE up(d.h, i)
    IN  [h |-> u.h, ret |-> <<>>, panic |-> u.panic]

\* Pop until the heap is empty: the values returned, in order.
RECURSIVE PopAll(_)
PopAll(s) ==
    IF s = <<>> THEN <<>>
    ELSE LET r == PopFunc(s) IN r.ret \o PopAll(r.h)

(***************************************************************************)
(* The caller: a slice of any content, first made a heap by Init, then     *)
(* any sequence of calls.  A panic ends the program.                       *)
(***************************************************************************)
Orderings == {"cmp.Less", "byKey"}

\* The indices within the preconditions of Remove and Fix.
ValidIndex(s) == 0..(Len(s) - 1)

Init ==
    /\ lessFn \in Orderings
    /\ h \in SeqsUpTo(LenBound)
    /\ op = "none"
    /\ old = h
    /\ args = <<>>
    /\ ret = <<>>
    /\ panicked = FALSE
    /\ draining = FALSE
    /\ src = <<>>
    /\ out = <<>>
    /\ building = FALSE
    /\ log = <<>>

\* What every call records of its result r.
Returns(r) ==
    /\ h' = r.h
    /\ ret' = r.ret
    /\ panicked' = r.panic
    /\ old' = h
    /\ UNCHANGED lessFn

NotDraining == draining' = FALSE /\ src' = <<>> /\ out' = <<>>
NotBuilding == building' = FALSE /\ log' = <<>>

CallInit ==
    /\ ~panicked
    /\ LET r == InitFunc(h) IN Returns(r)
    /\ op' = "Init"
    /\ args' = <<>>
    /\ draining' = TRUE /\ src' = h /\ out' = <<>>
    /\ building' = (h = <<>>) /\ log' = <<>>

CallPush(x) ==
    /\ ~panicked
    /\ op # "none"
    /\ Len(h) < LenBound
    /\ LET r == PushFunc(h, x) IN Returns(r)
    /\ op' = "Push"
    /\ args' = <<x>>
    /\ NotDraining
    /\ building' = (building /\ Len(log) < MaxList)
    /\ log' = IF building' THEN Append(log, x) ELSE <<>>

CallPop ==
    /\ ~panicked
    /\ op # "none"
    /\ LET r == PopFunc(h) IN
       /\ Returns(r)
       /\ draining' = (draining /\ ~r.panic)
       /\ src' = IF draining' THEN src ELSE <<>>
       /\ out' = IF draining' THEN out \o r.ret ELSE <<>>
    /\ op' = "Pop"
    /\ args' = <<>>
    /\ NotBuilding

CallRemove(i) ==
    /\ ~panicked
    /\ op # "none"
    /\ LET r == RemoveFunc(h, i) IN Returns(r)
    /\ op' = "Remove"
    /\ args' = <<i>>
    /\ NotDraining
    /\ NotBuilding

\* Fix(h, i) with no element changed before the call.
CallFix(i) ==
    /\ ~panicked
    /\ op # "none"
    /\ LET r == FixFunc(h, i) IN Returns(r)
    /\ op' = "Fix"
    /\ args' = <<i>>
    /\ NotDraining
    /\ NotBuilding

\* h[i] = v; Fix(h, i)
CallMutateFix(i, v) ==
    /\ ~panicked
    /\ op # "none"
    /\ LET r == FixFunc([h EXCEPT ![i + 1] = v], i) IN Returns(r)
    /\ op' = "MutateFix"
    /\ args' = <<i, v>>
    /\ NotDraining
    /\ NotBuilding

Next ==
    \/ CallInit
    \/ \E x \in Values : CallPush(x)
    \/ CallPop
    \/ \E i \in ValidIndex(h) : CallRemove(i)
    \/ \E i \in ValidIndex(h) : CallFix(i)
    \/ \E i \in ValidIndex(h), v \in Values : CallMutateFix(i, v)

Spec == Init /\ [][Next]_vars

(***************************************************************************)
(* What the claims speak of                                                *)
(***************************************************************************)
\* The heap invariant, as the tests' verify checks it: no child is less
\* than its parent.
HeapProperty(s) ==
    \A i \in 0..(Len(s) - 1) : \A c \in {2 * i + 1, 2 * i + 2} :
        c < Len(s) => ~less(At(s, c), At(s, i))

\* The multiset of the elements of s.
BagOf(s) ==
    [v \in {s[k] : k \in 1..Len(s)} |-> Cardinality({k \in 1..Len(s) : s[k] = v})]

\* No element of s is less than an earlier one.
NonDecreasing(s) ==
    \A a \in 1..Len(s) : \A b \in 1..Len(s) : a < b => ~less(s[b], s[a])

\* s and t agree up to the ordering: same length, and at no position is
\* one's element less than the other's.
SameOrder(s, t) ==
    /\ Len(s) = Len(t)
    /\ \A k \in 1..Len(s) : ~less(s[k], t[k]) /\ ~less(t[k], s[k])

\* Every order in which the elements of s can be listed.
Orders(s) ==
    {[k \in 1..Len(s) |-> s[f[k]]] : f \in Permutations(1..Len(s))}

\* Push the elements of xs, in order.
RECURSIVE PushAll(_, _)
PushAll(s, xs) ==
    IF xs = <<>> THEN s ELSE PushAll(PushFunc(s, Head(xs)).h, Tail(xs))

\* Remove(h, 0) until the heap is empty: the values returned, in order.
RECURSIVE RemoveFirstAll(_)
RemoveFirstAll(s) ==
    IF s = <<>> THEN <<>>
    ELSE LET r == RemoveFunc(s, 0) IN r.ret \o RemoveFirstAll(r.h)

\* Remove until the heap is empty, at every choice of valid indices: the
\* sequences of values returned.
RECURSIVE RemoveOrders(_)
RemoveOrders(s) ==
    IF s = <<>> THEN {<<>>}
    ELSE UNION {{RemoveFunc(s, i).ret \o t : t \in RemoveOrders(RemoveFunc(s, i).h)}
                : i \in ValidIndex(s)}

\* A program that orders by cmp.Less, before its first call: where the
\* scenarios on given numbers are evaluated.
NaturalOrder == lessFn = "cmp.Less" /\ op = "none" /\ h = <<>>

\* The slice the last MutateFix handed to Fix.
Mutated == [old EXCEPT ![args[1] + 1] = args[2]]

\* C1: once Init has run, after every public operation called within its
\* preconditions the slice satisfies the heap invariant.
C1_HeapInvariant ==
    (op # "none" /\ ~panicked) => HeapProperty(h)

C1_Witness ==
    /\ op = "MutateFix" /\ ~panicked
    /\ Len(h) = MaxLen
    /\ h # Mutated
    /\ ~HeapProperty(Mutated)

\* C2: Pop on a non-empty heap returns an element that no element of the
\* heap is less than, and leaves the other elements, one fewer.
C2_PopReturnsMinimum ==
    (op = "Pop" /\ ~panicked) =>
        /\ Len(ret) = 1
        /\ \A k \in 1..Len(old) : ~less(old[k], ret[1])
        /\ Len(h) = Len(old) - 1
        /\ BagOf(h \o ret) = BagOf(old)

C2_Witness ==
    /\ op = "Pop" /\ ~panicked
    /\ Len(old) >= 3
    /\ \E k \in 1..Len(old) : less(ret[1], old[k])
    /\ h # SubSeq(old, 2, Len(old))

\* C3: Init and then as many Pops as there are elements return the elements
\* in non-decreasing order, each as often as the input holds it, and leave
\* the heap empty; [5,2,8,1,9,3] gives 1,2,3,5,8,9 under the natural order.
C3_SortedExtraction ==
    /\ (draining /\ Len(out) = Len(src)) =>
        /\ NonDecreasing(out)
        /\ BagOf(out) = BagOf(src)
        /\ h = <<>>
    /\ NaturalOrder =>
        PopAll(InitFunc(<<5, 2, 8, 1, 9, 3>>).h) = <<1, 2, 3, 5, 8, 9>>

C3_Witness ==
    /\ draining
    /\ Len(src) = LenBound
    /\ Len(out) = Len(src)
    /\ ~NonDecreasing(src)

\* C4 as stated: popping all after pushing the values in some order gives
\* the very sequence that Init on any order of them and popping all gives.
C4_PushPopDuality_Identical ==
    building => \A p \in Orders(log) : PopAll(h) = PopAll(InitFunc(p).h)

\* C4 as amended: the two sequences agree up to the ordering, and are
\* identical under the natural order of the cmp.Ordered variants;
\* 3,1,4,1,5 pushed gives 1,1,3,4,5.
C4_PushPopDuality ==
    /\ building => \A p \in Orders(log) :
        /\ SameOrder(PopAll(h), PopAll(InitFunc(p).h))
        /\ BagOf(PopAll(h)) = BagOf(PopAll(InitFunc(p).h))
        /\ lessFn = "cmp.Less" => PopAll(h) = PopAll(InitFunc(p).h)
    /\ NaturalOrder =>
        PopAll(PushAll(<<>>, <<3, 1, 4, 1, 5>>)) = <<1, 1, 3, 4, 5>>

C4_Witness ==
    /\ building
    /\ Len(log) = MaxList
    /\ ~NonDecreasing(log)
    /\ h # log

\* C5: Remove at a valid index returns the element that was there, leaves
\* a heap one shorter that holds the other elements; removing at any valid
\* indices until the heap is empty returns the elements it held.
C5_RemoveCorrect ==
    /\ (op = "Remove" /\ ~panicked) =>
        /\ ret = <<At(old, args[1])>>
        /\ Len(h) = Len(old) - 1
        /\ HeapProperty(h)
        /\ BagOf(h \o ret) = BagOf(old)
    /\ (op = "Init" /\ Len(h) <= MaxList) =>
        \A r \in RemoveOrders(h) : BagOf(r) = BagOf(h)

\* Remove moved the last element to i and from there toward the root.
C5_Witness ==
    /\ op = "Remove" /\ ~panicked
    /\ args[1] < Len(old) - 1
    /\ LET n == Len(old) - 1
           i == args[1]
       IN  /\ less(At(old, n), At(old, TruncDiv(i - 1, 2)))
           /\ At(h, TruncDiv(i - 1, 2)) = At(old, n)
           /\ At(h, i) = At(old, TruncDiv(i - 1, 2))

\* C6: after h[i] = v and Fix(h, i) the slice is a heap, and popping all
\* gives the sequence that Init on the changed slice and popping all gives.
C6_FixCorrect ==
    (op = "MutateFix" /\ ~panicked) =>
        /\ HeapProperty(h)
        /\ PopAll(h) = PopAll(InitFunc(Mutated).h)

\* Fix moved a smaller new value toward the root.
C6_Witness ==
    /\ op = "MutateFix" /\ ~panicked
    /\ less(args[2], At(old, args[1]))
    /\ args[1] > 0
    /\ At(h, TruncDiv(args[1] - 1, 2)) = args[2]
    /\ h # Mutated

\* The heap that Remove(h, i) and then Push(h, v) make of the heap the
\* last MutateFix started from.
RemoveThenPush == PushFunc(RemoveFunc(old, args[1]).h, args[2]).h

\* C7 as stated: h[i] = v; Fix(h, i) and Remove(h, i); Push(h, v) give
\* heaps of the same length and elements, and popping all of either gives
\* the very same sequence.
C7_FixIsRemovePush_Identical ==
    (op = "MutateFix" /\ ~panicked) =>
        /\ Len(h) = Len(RemoveThenPush)
        /\ BagOf(h) = BagOf(RemoveThenPush)
        /\ HeapProperty(h) /\ HeapProperty(RemoveThenPush)
        /\ PopAll(h) = PopAll(RemoveThenPush)

\* C7 as amended: the same, the two popped sequences agreeing up to the
\* ordering, and identical under the natural order.
C7_FixIsRemovePush ==
    (op = "MutateFix" /\ ~panicked) =>
        /\ Len(h) = Len(RemoveThenPush)
        /\ BagOf(h) = BagOf(RemoveThenPush)
        /\ HeapProperty(h) /\ HeapProperty(RemoveThenPush)
        /\ SameOrder(PopAll(h), PopAll(RemoveThenPush))
        /\ BagOf(PopAll(h)) = BagOf(PopAll(RemoveThenPush))
        /\ lessFn = "cmp.Less" => PopAll(h) = PopAll(RemoveThenPush)

\* The two ways give differently laid out heaps of a changed element.
C7_Witness ==
    /\ op = "MutateFix" /\ ~panicked
    /\ args[2] # At(old, args[1])
    /\ Len(h) >= 3
    /\ h # RemoveThenPush

\* C8: on a non-empty slice, a heap or not, Pop and Remove(h, 0) return
\* the same value and leave the same slice; Remove(h, 0) returns an element
\* none is less than, and repeated on the heap 0,1,...,9 returns 0,1,...,9.
C8_PopIsRemoveFirst ==
    /\ (op = "none" /\ h # <<>>) => PopFunc(h) = RemoveFunc(h, 0)
    /\ (op = "Pop" /\ old # <<>>) =>
        /\ RemoveFunc(old, 0).h = h
        /\ RemoveFunc(old, 0).ret = ret
        /\ RemoveFunc(old, 0).panic = panicked
    /\ (op = "Remove" /\ args = <<0>> /\ ~panicked) =>
        \A k \in 1..Len(old) : ~less(old[k], ret[1])
    /\ NaturalOrder =>
        RemoveFirstAll(<<0, 1, 2, 3, 4, 5, 6, 7, 8, 9>>)
            = <<0, 1, 2, 3, 4, 5, 6, 7, 8, 9>>

\* Pop sifted the element it moved to the root down.
C8_Witness ==
    /\ op = "Pop" /\ ~panicked
    /\ Len(old) >= 3
    /\ h # SubSeq([old EXCEPT ![1] = old[Len(old)]], 1, Len(old) - 1)

\* C9: Init on the result of Init changes nothing, and Init on a slice
\* that is a heap leaves every position as it was.
C9_InitIdempotent ==
    (op = "Init" /\ ~panicked) =>
        /\ InitFunc(h).h = h
        /\ HeapProperty(old) => h = old

\* Init was called on a heap of several different elements.
C9_Witness ==
    /\ op = "Init" /\ ~panicked
    /\ HeapProperty(old)
    /\ Len(old) >= 3
    /\ \E k \in 1..Len(old) : old[k] # old[1]

\* C10: Pop on the empty slice panics, returns nothing and leaves the
\* slice as it was.
C10_PopEmptyPanics ==
    (op = "Pop" /\ old = <<>>) =>
        /\ panicked
        /\ ret = <<>>
        /\ h = old

C10_Witness ==
    /\ op = "Pop"
    /\ old = <<>>
    /\ panicked

(***************************************************************************)
(* A caller that passes indices outside [0, len) to Remove and Fix, on     *)
(* any slice, a heap or not.                                               *)
(***************************************************************************)
\* Indices on either side of the valid ones.
OutOfRange(s) == ((-2)..(Len(s) + 1)) \ ValidIndex(s)

RemoveOutOfRange(i) ==
    /\ ~panicked
    /\ LET r == RemoveFunc(h, i) IN Returns(r)
    /\ op' = "Remove"
    /\ args' = <<i>>
    /\ NotDraining
    /\ NotBuilding

FixOutOfRange(i) ==
    /\ ~panicked
    /\ LET r == FixFunc(h, i) IN Returns(r)
    /\ op' = "Fix"
    /\ args' = <<i>>
    /\ NotDraining
    /\ NotBuilding

NextAny ==
    \/ CallInit
    \/ \E i \in OutOfRange(h) : RemoveOutOfRange(i)
    \/ \E i \in OutOfRange(h) : FixOutOfRange(i)

SpecAny == Init /\ [][NextAny]_vars

\* C11: Remove with an index outside [0, len), on any slice, the empty one
\* too, panics, returns nothing and leaves the slice as it was.
C11_RemoveOutOfRangePanics ==
    (op = "Remove" /\ args[1] \notin ValidIndex(old)) =>
        /\ panicked
        /\ ret = <<>>
        /\ h = old

\* Remove was called just past the end of a slice of several elements, and
\* on the empty slice.
C11_Witness ==
    /\ op = "Remove" /\ panicked
    /\ \/ Len(old) >= 3 /\ args[1] = Len(old)
       \/ old = <<>> /\ args[1] = 0

\* C12: Fix with an index outside [0, len), on any slice, the empty one
\* too, panics and leaves the slice as it was.
C12_FixOutOfRangePanics ==
    (op = "Fix" /\ args[1] \notin ValidIndex(old)) =>
        /\ panicked
        /\ h = old

\* The positions from j up to the root: j, its parent, ..., 0.
RECURSIVE PathToRoot(_)
PathToRoot(j) ==
    IF j <= 0 THEN {0} ELSE {j} \cup PathToRoot((j - 1) \div 2)

\* C13: Push makes the slice one longer, adds one occurrence of x to its
\* elements, and changes no position but the new last one and those on
\* the way from it to the root.
C13_PushEffect ==
    (op = "Push" /\ ~panicked) =>
        /\ Len(h) = Len(old) + 1
        /\ BagOf(h) = BagOf(Append(old, args[1]))
        /\ \A k \in ValidIndex(old) :
            k \notin PathToRoot(Len(old)) => At(h, k) = At(old, k)

\* Push moved the new element up, past positions that are not on its way.
C13_Witness ==
    /\ op = "Push" /\ ~panicked
    /\ Len(old) >= 4
    /\ At(h, 0) = args[1]
    /\ At(old, 0) # args[1]
    /\ \E k \in ValidIndex(old) :
        k \notin PathToRoot(Len(old)) /\ less(args[1], At(old, k))

\* C17: Remove at the last index, on any non-empty slice, returns the last
\* element and leaves every other position as it was.
C17_RemoveLastShrinks ==
    /\ (op = "Remove" /\ args[1] = Len(old) - 1) =>
        /\ ~panicked
        /\ ret = <<At(old, Len(old) - 1)>>
        /\ h = SubSeq(old, 1, Len(old) - 1)
    /\ (op = "none" /\ h # <<>>) =>
        RemoveFunc(h, Len(h) - 1) =
            [h |-> SubSeq(h, 1, Len(h) - 1), ret |-> <<At(h, Len(h) - 1)>>,
             panic |-> FALSE]

\* The last element of a heap of several was removed.
C17_Witness ==
    /\ op = "Remove" /\ ~panicked
    /\ Len(old) >= 3
    /\ args[1] = Len(old) - 1
    /\ At(old, 0) # At(old, Len(old) - 1)

\* C19: Fix at a valid index of a heap no element of which was changed
\* makes no swap and leaves the slice as it was.
C19_FixUnchangedIsNoOp ==
    (op = "Fix" /\ args[1] \in ValidIndex(old)) =>
        /\ ~panicked
        /\ h = old
        /\ down(old, args[1], Len(old)).swaps = 0
        /\ up(old, args[1]).swaps = 0

\* Fix was called inside a heap whose elements differ.
C19_Witness ==
    /\ op = "Fix" /\ ~panicked
    /\ Len(old) >= 4
    /\ args[1] = 1
    /\ \E k \in 1..Len(old) : old[k] # old[1]

(***************************************************************************)
(* down on its own: one call, on any slice, at any start index and any     *)
(* logical length up to the slice's.                                       *)
(***************************************************************************)
CallDown(i0, n) ==
    /\ op = "none"
    /\ LET d == down(h, i0, n) IN
       /\ h' = d.h
       /\ ret' = IF d.moved THEN <<1>> ELSE <<0>>
       /\ panicked' = d.panic
    /\ old' = h
    /\ op' = "down"
    /\ args' = <<i0, n>>
    /\ UNCHANGED lessFn
    /\ NotDraining
    /\ NotBuilding

NextDown == \E i0 \in 0..Len(h), n \in 0..Len(h) : CallDown(i0, n)

SpecDown == Init /\ [][NextDown]_vars

\* What the last call of down did, computed again from its arguments.
LastDown == down(old, args[1], args[2])

\* C15: down returns true exactly when it made at least one swap; when it
\* returns false the slice is unchanged; it indexes and changes no position
\* at or beyond the logical length n.
C15_DownResult ==
    op = "down" =>
        /\ ~panicked
        /\ ret = <<1>> <=> LastDown.swaps >= 1
        /\ ret = <<0>> => h = old
        /\ LastDown.reads \subseteq 0..(args[2] - 1)
        /\ Len(h) = Len(old)
        /\ \A k \in ValidIndex(old) : k >= args[2] => At(h, k) = At(old, k)

\* down moved an element two levels, below a logical length shorter than
\* the slice.
C15_Witness ==
    /\ op = "down"
    /\ ret = <<1>>
    /\ LastDown.swaps >= 2
    /\ args[2] < Len(old)

(***************************************************************************)
(* down on slices as long as the int allows: the lengths up to MaxInt,     *)
(* filled in descending order, in ascending order, or with one value.      *)
(***************************************************************************)
WideSlices ==
    UNION {{[k \in 1..len |-> len - k], [k \in 1..len |-> k], [k \in 1..len |-> 0]}
           : len \in 1..MaxInt}

InitWide ==
    /\ lessFn = "cmp.Less"
    /\ h \in WideSlices
    /\ op = "none"
    /\ old = h
    /\ args = <<>>
    /\ ret = <<>>
    /\ panicked = FALSE
    /\ draining = FALSE
    /\ src = <<>>
    /\ out = <<>>
    /\ building = FALSE
    /\ log = <<>>

SpecWide == InitWide /\ [][NextDown]_vars

\* C20: for 0 <= i < n <= MaxInt the left-child index down computes is the
\* true one or negative; where it is negative or >= n down takes it for no
\* child and does nothing; and down indexes no position outside [0, n).
C20_ChildIndexOverflow ==
    (op = "down" /\ args[1] < args[2]) =>
        /\ ~panicked
        /\ \A i \in args[1]..(args[2] - 1) :
            leftChild(i) = 2 * i + 1 \/ leftChild(i) < 0
        /\ (leftChild(args[1]) < 0 \/ leftChild(args[1]) >= args[2]) =>
            /\ LastDown.swaps = 0
            /\ LastDown.reads = {}
            /\ h = old
        /\ LastDown.reads \subseteq 0..(args[2] - 1)

\* down swapped its way to a position whose left-child index overflows.
C20_Witness ==
    /\ op = "down" /\ ~panicked
    /\ args[1] < args[2]
    /\ LastDown.swaps >= 1
    /\ 2 * downLoop(old, args[1], args[2]).i + 1 > MaxInt
    /\ leftChild(downLoop(old, args[1], args[2]).i) < 0

(***************************************************************************)
(* The loops, one round at a time: the loop of InitFunc (each call of      *)
(* down one step), the loop of up and the loop of down.  op tells where    *)
(* the program is and args holds the loop's variables; a loop that is      *)
(* entered is run on, round after round, until it returns.                 *)
(***************************************************************************)
Ghosts == <<draining, src, out, building, log>>

\* InitFunc: n := len(h); i := n/2 - 1
InitEnter ==
    /\ op = "none"
    /\ op' = "Init:loop"
    /\ args' = <<heapifyStart(Len(h))>>
    /\ old' = h
    /\ UNCHANGED <<h, lessFn, ret, panicked, Ghosts>>

\* InitFunc: i >= 0; down(h, i, n, less); i--
InitDown ==
    /\ op = "Init:loop"
    /\ ~panicked
    /\ args[1] >= 0
    /\ LET d == down(h, args[1], Len(h)) IN
       /\ h' = d.h
       /\ panicked' = d.panic
    /\ args' = <<args[1] - 1>>
    /\ UNCHANGED <<lessFn, op, old, ret, Ghosts>>

\* InitFunc: i < 0, the loop ends
InitReturn ==
    /\ op = "Init:loop"
    /\ ~panicked
    /\ args[1] < 0
    /\ op' = "Init:return"
    /\ UNCHANGED <<h, lessFn, old, args, ret, panicked, Ghosts>>

\* up: i := (j - 1) / 2
parent(j) == TruncDiv(WrapInt(j - 1), 2)

\* up: j = i, after the swap
upNext_stays(i, j) == j

upNext(i, j) == i

\* down: i = j, after the swap
downNext(i, j) == j

\* up(h, j, less) is called; args holds j and the j it was called with.
UpEnter(j) ==
    /\ op = "none"
    /\ op' = "up:loop"
    /\ args' = <<j, j>>
    /\ old' = h
    /\ UNCHANGED <<h, lessFn, ret, panicked, Ghosts>>

\* One round of the loop of up.
UpIter ==
    /\ op = "up:loop"
    /\ LET j == args[1]
           i == parent(j)
       IN  IF i = j \/ ~less(At(h, j), At(h, i))
           THEN /\ op' = "up:return"
                /\ UNCHANGED <<h, args>>
           ELSE /\ h' = Swap(h, i, j)
                /\ args' = <<upNext(i, j), args[2]>>
                /\ UNCHANGED op
    /\ UNCHANGED <<lessFn, old, ret, panicked, Ghosts>>

\* down(h, i0, n, less) is called; args holds i, n and i0.
DownEnter(i0, n) ==
    /\ op = "none"
    /\ op' = "down:loop"
    /\ args' = <<i0, n, i0>>
    /\ old' = h
    /\ UNCHANGED <<h, lessFn, ret, panicked, Ghosts>>

\* One round of the loop of down; returning, it reports i > i0.
DownIter ==
    /\ op = "down:loop"
    /\ LET i  == args[1]
           n  == args[2]
           j1 == leftChild(i)
       IN  IF noChild(j1, n) \/ stops(h, i, child(h, j1, n))
           THEN /\ op' = "down:return"
                /\ ret' = IF i > args[3] THEN <<1>> ELSE <<0>>
                /\ UNCHANGED <<h, args>>
           ELSE /\ h' = Swap(h, i, child(h, j1, n))
                /\ args' = <<downNext(i, child(h, j1, n)), n, args[3]>>
                /\ UNCHANGED <<op, ret>>
    /\ UNCHANGED <<lessFn, old, panicked, Ghosts>>

NextLoops ==
    \/ InitEnter
    \/ InitDown
    \/ InitReturn
    \/ \E j \in ValidIndex(h) : UpEnter(j)
    \/ UpIter
    \/ \E n \in {Len(h) - 1, Len(h)} : \E i0 \in 0..(n - 1) : DownEnter(i0, n)
    \/ DownIter

\* The slices the loops are run on, round by round, are at most this long.
MaxLoopLen == 5

InitLoops == Init /\ Len(h) <= MaxLoopLen

SpecLoops == InitLoops /\ [][NextLoops]_vars /\ WF_vars(NextLoops)

\* The subtree rooted at k satisfies the heap invariant (the tests' verify).
RECURSIVE SubtreeHeap(_, _)
SubtreeHeap(s, k) ==
    \A c \in {2 * k + 1, 2 * k + 2} :
        c < Len(s) => ~less(At(s, c), At(s, k)) /\ SubtreeHeap(s, c)

\* C14: in the loop of Init, before down is called on i every subtree
\* rooted at an index greater than i satisfies the heap invariant, and after
\* the call (i is one less then) the subtree rooted at i does too; the loop
\* ends with the slice InitFunc returns, a heap.
C14_HeapifyLoopInvariant ==
    /\ op = "Init:loop" =>
        /\ ~panicked
        /\ args[1] <= heapifyStart(Len(h))
        /\ \A k \in ValidIndex(h) : k > args[1] => SubtreeHeap(h, k)
    /\ op = "Init:return" =>
        /\ h = InitFunc(old).h
        /\ HeapProperty(h)

\* down has just been called on an index that has a parent, and changed
\* the slice.
C14_Witness ==
    /\ op = "Init:loop"
    /\ args[1] >= 0
    /\ args[1] < heapifyStart(Len(h))
    /\ h # old
    /\ ~SubtreeHeap(old, args[1] + 1)

Running == {"Init:loop", "up:loop", "down:loop"}
Returned == {"Init:return", "up:return", "down:return"}

\* C18: in each round that swaps, the index of up decreases and stays at or
\* above the root, and the index of down increases and stays below n; the
\* counter of Init's loop decreases; so every loop entered returns, up and
\* down with the result of the whole call.
C18_Termination ==
    /\ [][/\ (op = "up:loop" /\ op' = "up:loop") =>
                args'[1] < args[1] /\ args'[1] >= 0
          /\ (op = "down:loop" /\ op' = "down:loop") =>
                args'[1] > args[1] /\ args'[1] < args[2]
          /\ (op = "Init:loop" /\ op' = "Init:loop") =>
                args'[1] < args[1] /\ args'[1] >= -1]_vars
    /\ [](op = "up:return" => h = up(old, args[2]).h)
    /\ [](op = "down:return" =>
            /\ h = down(old, args[3], args[2]).h
            /\ (ret = <<1>>) = down(old, args[3], args[2]).moved)
    /\ (op \in Running) ~> (op \in Returned)

\* up returned after it moved an element two levels up.
C18_Witness ==
    /\ op = "up:return"
    /\ args[2] >= 3
    /\ args[1] = 0
    /\ h # old

(***************************************************************************)
(* RemoveFunc and FixFunc, one call at a time: the calls of down and of up *)
(* are single steps, on any slice and any index in range.  args holds the  *)
(* index i and what the function has called so far: whether down was       *)
(* called, what it reported and how many swaps it made, whether up was     *)
(* called and how many swaps it made.                                      *)
(***************************************************************************)
\* if !down(...) { up(...) }: up is called when down reports no move.
callsUp_always(moved) == TRUE

callsUp(moved) == ~moved

Bit(b) == IF b THEN 1 ELSE 0

\* RemoveFunc: n := len(*h) - 1; x := (*h)[i]; if n != i { (*h)[i] = (*h)[n]
RemoveEnter(i) ==
    /\ op = "none"
    /\ old' = h
    /\ ret' = <<At(h, i)>>
    /\ args' = <<i, 0, 0, 0, 0, 0>>
    /\ IF Len(h) - 1 # i
       THEN /\ h' = [h EXCEPT ![i + 1] = At(h, Len(h) - 1)]
            /\ op' = "Remove:down"
       ELSE /\ h' = h
            /\ op' = "Remove:shrink"
    /\ UNCHANGED <<lessFn, panicked, Ghosts>>

\* RemoveFunc: if !down(*h, i, n, less) {
RemoveDown ==
    /\ op = "Remove:down"
    /\ LET d == down(h, args[1], Len(h) - 1) IN
       /\ h' = d.h
       /\ panicked' = d.panic
       /\ args' = <<args[1], 1, Bit(d.moved), d.swaps, 0, 0>>
       /\ op' = IF callsUp(d.moved) THEN "Remove:up" ELSE "Remove:shrink"
    /\ UNCHANGED <<lessFn, old, ret, Ghosts>>

\* RemoveFunc: up(*h, i, less)
RemoveUp ==
    /\ op = "Remove:up"
    /\ LET u == up(h, args[1]) IN
       /\ h' = u.h
       /\ panicked' = u.panic
       /\ args' = [args EXCEPT ![5] = 1, ![6] = u.swaps]
    /\ op' = "Remove:shrink"
    /\ UNCHANGED <<lessFn, old, ret, Ghosts>>

\* RemoveFunc: *h = (*h)[:n]; return x
RemoveReturn ==
    /\ op = "Remove:shrink"
    /\ h' = SubSeq(h, 1, Len(h) - 1)
    /\ op' = "Remove:return"
    /\ UNCHANGED <<lessFn, old, args, ret, panicked, Ghosts>>

\* FixFunc is called.
FixEnter(i) ==
    /\ op = "none"
    /\ old' = h
    /\ args' = <<i, 0, 0, 0, 0, 0>>
    /\ op' = "Fix:down"
    /\ UNCHANGED <<h, lessFn, ret, panicked, Ghosts>>

\* FixFunc: if !down(h, i, len(h), less) {
FixDown ==
    /\ op = "Fix:down"
    /\ LET d == down(h, args[1], Len(h)) IN
       /\ h' = d.h
       /\ panicked' = d.panic
       /\ args' = <<args[1], 1, Bit(d.moved), d.swaps, 0, 0>>
       /\ op' = IF callsUp(d.moved) THEN "Fix:up" ELSE "Fix:return"
    /\ UNCHANGED <<lessFn, old, ret, Ghosts>>

\* FixFunc: up(h, i, less), and the return
FixUp ==
    /\ op = "Fix:up"
    /\ LET u == up(h, args[1]) IN
       /\ h' = u.h
       /\ panicked' = u.panic
       /\ args' = [args EXCEPT ![5] = 1, ![6] = u.swaps]
    /\ op' = "Fix:return"
    /\ UNCHANGED <<lessFn, old, ret, Ghosts>>

NextCalls ==
    \/ \E i \in ValidIndex(h) : RemoveEnter(i)
    \/ RemoveDown
    \/ RemoveUp
    \/ RemoveReturn
    \/ \E i \in ValidIndex(h) : FixEnter(i)
    \/ FixDown
    \/ FixUp

SpecCalls == Init /\ [][NextCalls]_vars

InCall ==
    {"Remove:down", "Remove:up", "Remove:shrink", "Remove:return",
     "Fix:down", "Fix:up", "Fix:return"}

\* C16: in Remove(h, i) with i not the last index and in Fix(h, i), down at
\* i is called first, up at i is called if and only if down reported no
\* swap, and no call swaps both in down and in up; the steps end with the
\* slice and the result of the whole RemoveFunc or FixFunc.
C16_DownThenUp ==
    op \in InCall =>
        LET i          == args[1]
            downCalled == args[2] = 1
            downMoved  == args[3] = 1
            upCalled   == args[5] = 1
            pastIf     == \/ op = "Fix:return"
                          \/ /\ op \in {"Remove:shrink", "Remove:return"}
                             /\ i # Len(old) - 1
        IN  /\ ~panicked
            /\ upCalled => downCalled /\ ~downMoved
            /\ op \in {"Remove:up", "Fix:up"} => downCalled /\ ~upCalled
            /\ downMoved = (args[4] > 0)
            /\ pastIf => downCalled /\ (upCalled <=> ~downMoved)
            /\ ~(args[4] > 0 /\ args[6] > 0)
            /\ op = "Remove:return" =>
                /\ h = RemoveFunc(old, i).h
                /\ ret = RemoveFunc(old, i).ret
            /\ op = "Fix:return" => h = FixFunc(old, i).h

\* Remove on a heap, not of the last index: down reported no swap and up
\* then moved the element toward the root.
C16_Witness ==
    /\ op = "Remove:return"
    /\ HeapProperty(old)
    /\ args[1] # Len(old) - 1
    /\ args[2] = 1
    /\ args[3] = 0
    /\ args[5] = 1
    /\ args[6] > 0

====
